---- MODULE Spec2Model ----
(***************************************************************************)
(* A model of autodiscover-rs (src/src/lib.rs): the address codec          *)
(* (to_bytes / parse_bytes), the entry point run() with its two methods,   *)
(* and the receive loop handle_broadcast_message, for two processes that   *)
(* share one network segment.                                              *)
(***************************************************************************)
EXTENDS Integers, Sequences, FiniteSets, TLC

VARIABLES
    connect_to,  \* per process: the advertised address passed to run()
    method,      \* per process: the Method passed to run()
    pc,          \* per process: the position inside run()
    result,      \* per process: what run() returned ("none" while running)
    origin,      \* per process: the call whose error run() returned
    bound,       \* per process: the receive socket is bound (and joined)
    local,       \* per process: the address the receive socket is bound to
    tmp,         \* per process: the temporary send socket of a Multicast run
    inbox,       \* per process: datagrams queued on the receive socket
    buff,        \* per process: the loop's receive buffer
    pending,     \* per process: the address / stream of the iteration
    rx,          \* per process: history of the loop's receives
    connects,    \* per process: history of TcpStream::connect calls
    callbacks,   \* per process: history of callback invocations
    sent,        \* per process: history of announcements sent
    log,         \* per process: history of log records
    injected,    \* number of datagrams sent by hosts outside the model
    codec        \* the codec exercised alone (specification CodecSpec)

vars == <<connect_to, method, pc, result, origin, bound, local, tmp, inbox, buff,
          pending, rx, connects, callbacks, sent, log, injected, codec>>

netvars == <<connect_to, method, pc, result, origin, bound, local, tmp, inbox,
             buff, pending, rx, connects, callbacks, sent, log, injected>>

----------------------------------------------------------------------------
(* Bounds of the model.                                                    *)

\* datagrams that hosts outside the model may send to the segment
MaxInject == 2
\* the largest length handed to parse_bytes when the codec is exercised alone
MaxLen == 20

----------------------------------------------------------------------------
(* Socket addresses: std::net::SocketAddr.                                 *)

V4(ip, port) == [fam |-> "V4", ip |-> ip, port |-> port]

V6(ip, port, flowinfo, scope_id) ==
    [fam |-> "V6", ip |-> ip, port |-> port,
     flowinfo |-> flowinfo, scope_id |-> scope_id]

\* SocketAddr::new(ip, port): a V6 address gets flowinfo 0 and scope id 0
SocketAddrNew(fam, ip, port) ==
    IF fam = "V4" THEN V4(ip, port) ELSE V6(ip, port, 0, 0)

Zeros(n) == [i \in 1..n |-> 0]

\* dst[lo..lo+len(src)].clone_from_slice(src), lo counted from 0
CopyInto(dst, lo, src) ==
    [i \in 1..Len(dst) |->
        IF i > lo /\ i <= lo + Len(src) THEN src[i - lo] ELSE dst[i]]

\* u16::to_le_bytes in place of u16::to_be_bytes
U16ToBe_LittleEndian(port) == <<port % 256, port \div 256>>

\* u16::to_be_bytes
U16ToBe(port) == <<port \div 256, port % 256>>

\* u16::from_le_bytes in place of u16::from_be_bytes
U16FromBe_LittleEndian(b) == b[2] * 256 + b[1]

\* u16::from_be_bytes
U16FromBe(b) == b[1] * 256 + b[2]

\* u32::from_be_bytes. The number is kept as its two 16-bit halves,
\* hi * 65536 + lo, since it exceeds the integers TLC computes with.
U32FromBe(b) == [hi |-> b[1] * 256 + b[2], lo |-> b[3] * 256 + b[4]]

\* Ipv4Addr::from(u32): the octets of the number, most significant first
Ipv4FromU32(n) ==
    <<n.hi \div 256, n.hi % 256, n.lo \div 256, n.lo % 256>>

\* buff[lo..hi], lo and hi counted from 0 as in the source
Slice(b, lo, hi) == SubSeq(b, lo + 1, hi)

Ok(a) == [tag |-> "Ok", addr |-> a]
Err == [tag |-> "Err"]
Panic == [tag |-> "Panic"]

\* parse_bytes with the length match widened to anything of at least 6 bytes
parse_bytes_Lenient(len, b) ==
    IF len = 18
    THEN IF Len(b) < 18 THEN Panic
         ELSE Ok(SocketAddrNew("V6", Slice(b, 0, 16), U16FromBe(Slice(b, 16, 18))))
    ELSE IF len >= 6
    THEN IF Len(b) < 6 THEN Panic
         ELSE Ok(SocketAddrNew("V4", Ipv4FromU32(U32FromBe(Slice(b, 0, 4))),
                               U16FromBe(Slice(b, 4, 6))))
    ELSE Err

\* parse_bytes(len, buff): a slice beyond the end of buff panics
parse_bytes(len, b) ==
    CASE len = 6 ->
            IF Len(b) < 6 THEN Panic
            ELSE Ok(SocketAddrNew("V4", Ipv4FromU32(U32FromBe(Slice(b, 0, 4))),
                                  U16FromBe(Slice(b, 4, 6))))
      [] len = 18 ->
            IF Len(b) < 18 THEN Panic
            ELSE Ok(SocketAddrNew("V6", Slice(b, 0, 16), U16FromBe(Slice(b, 16, 18))))
      [] OTHER -> Err

\* to_bytes with the port written before the address
to_bytes_PortFirst(a) ==
    IF a.fam = "V6"
    THEN CopyInto(CopyInto(Zeros(18), 2, a.ip), 0, U16ToBe(a.port))
    ELSE CopyInto(CopyInto(Zeros(6), 2, a.ip), 0, U16ToBe(a.port))

\* to_bytes(connect_to)
to_bytes(a) ==
    IF a.fam = "V6"
    THEN CopyInto(CopyInto(Zeros(18), 0, a.ip), 16, U16ToBe(a.port))
    ELSE CopyInto(CopyInto(Zeros(6), 0, a.ip), 4, U16ToBe(a.port))

----------------------------------------------------------------------------
(* The addresses and datagrams the model draws from.                       *)

Ip4Host5 == <<10, 0, 0, 5>>
Ip4Host9 == <<10, 0, 0, 9>>
Ip4Bcast == <<10, 0, 0, 255>>
Ip4Group == <<224, 0, 0, 1>>
Ip6Loop  == Zeros(15) \o <<1>>
Ip6Link  == <<254, 128>> \o Zeros(13) \o <<1>>
Ip6Group == <<255, 14>> \o Zeros(13) \o <<1>>

Procs == {"A", "B"}

\* the advertised addresses a caller may pass to run()
Addrs ==
    { V4(Ip4Host5, 4000), V4(Ip4Host9, 4001),
      V6(Ip6Loop, 5000, 0, 0), V6(Ip6Link, 5000, 0, 2), V6(Ip6Link, 5000, 1, 0) }

\* the advertised addresses of two processes that run side by side
DuoAddrs(p) ==
    IF p = "A"
    THEN { V4(Ip4Host5, 4000), V6(Ip6Loop, 5000, 0, 0), V6(Ip6Link, 5000, 0, 2) }
    ELSE { V4(Ip4Host9, 4001), V6(Ip6Loop, 5000, 0, 0) }

\* the inputs of the codec exercised alone
CodecAddrs ==
    { V4(ip, p) : ip \in {Ip4Host5, Ip4Host9, Ip4Bcast}, p \in {0, 4000, 65535} }
    \cup
    { V6(ip, p, f, s) : ip \in {Ip6Loop, Ip6Link}, p \in {0, 5000, 65535},
                        f \in {0, 1}, s \in {0, 2} }

\* 18-byte receive buffers handed to parse_bytes when exercised alone
CodecBuffs ==
    { Zeros(18), CopyInto(Zeros(18), 0, to_bytes(V4(Ip4Host5, 4000))),
      to_bytes(V6(Ip6Link, 5000, 0, 0)) }

----------------------------------------------------------------------------
(* The codec exercised alone.                                              *)

\* the local address of a socket that is not bound
Unbound == [fam |-> "none"]

\* nothing has run yet
Quiet ==
    /\ result = [p \in Procs |-> "none"]
    /\ origin = [p \in Procs |-> "none"]
    /\ bound = [p \in Procs |-> FALSE]
    /\ local = [p \in Procs |-> Unbound]
    /\ tmp = [p \in Procs |-> [state |-> "none"]]
    /\ inbox = [p \in Procs |-> <<>>]
    /\ buff = [p \in Procs |-> <<>>]
    /\ pending = [p \in Procs |-> [tag |-> "none"]]
    /\ rx = [p \in Procs |-> <<>>]
    /\ connects = [p \in Procs |-> <<>>]
    /\ callbacks = [p \in Procs |-> <<>>]
    /\ sent = [p \in Procs |-> <<>>]
    /\ log = [p \in Procs |-> <<>>]
    /\ injected = 0
    /\ codec = [op |-> "idle"]

\* the address and method of a process whose run() is not called
NoAddr == V4(<<0, 0, 0, 0>>, 0)
NoMethod == [kind |-> "Broadcast", addr |-> NoAddr]

CodecInit ==
    /\ connect_to = [p \in Procs |-> NoAddr]
    /\ method = [p \in Procs |-> NoMethod]
    /\ pc = [p \in Procs |-> "absent"]
    /\ Quiet

\* draw an input: an address to encode, or a length and an 18-byte buffer
Draw ==
    /\ codec.op = "idle"
    /\ \/ \E a \in CodecAddrs : codec' = [op |-> "input", addr |-> a]
       \/ \E n \in 0..MaxLen, b \in CodecBuffs :
             codec' = [op |-> "packet", len |-> n, buff |-> b]
    /\ UNCHANGED netvars

\* b = to_bytes(a)
Encode ==
    /\ codec.op = "input"
    /\ codec' = [op |-> "encoded", addr |-> codec.addr, bytes |-> to_bytes(codec.addr)]
    /\ UNCHANGED netvars

\* parse_bytes(len(b), b)
Decode ==
    /\ codec.op = "encoded"
    /\ codec' = [op |-> "decoded", addr |-> codec.addr, bytes |-> codec.bytes,
                 out |-> parse_bytes(Len(codec.bytes), codec.bytes)]
    /\ UNCHANGED netvars

\* parse_bytes(len, buff) on an 18-byte buffer
ParsePacket ==
    /\ codec.op = "packet"
    /\ codec' = [op |-> "parsed", len |-> codec.len, buff |-> codec.buff,
                 out |-> parse_bytes(codec.len, codec.buff)]
    /\ UNCHANGED netvars

CodecNext == Draw \/ Encode \/ Decode \/ ParsePacket

CodecSpec == CodecInit /\ [][CodecNext]_vars

----------------------------------------------------------------------------
(* The entry point run() and the receive loop, for each process.           *)

Broadcast(addr) == [kind |-> "Broadcast", addr |-> addr]
Multicast(addr) == [kind |-> "Multicast", addr |-> addr]

\* the values of Method a caller may pass to run()
Methods ==
    { Broadcast(V4(Ip4Bcast, 2020)), Broadcast(V6(Ip6Group, 1337, 0, 0)),
      Multicast(V4(Ip4Group, 1337)), Multicast(V6(Ip6Group, 1337, 0, 0)) }

\* datagrams that hosts outside the model send to the segment
InjectSet ==
    { <<>>, <<1, 2, 3>>,
      to_bytes(V4(Ip4Host5, 4000)),
      to_bytes(V4(Ip4Host9, 4001)),
      [i \in 1..17 |-> 200 + i],
      to_bytes(V6(Ip6Loop, 5000, 0, 0)),
      to_bytes(V6(Ip6Link, 5000, 0, 0)) \o <<9>> }

\* the size of the loop's receive buffer: vec![0; 18]
BuffLen == 18

Min(a, b) == IF a < b THEN a ELSE b

Append1(f, p, e) == [f EXCEPT ![p] = Append(@, e)]

Init ==
    /\ \E a \in Addrs : connect_to = [p \in Procs |-> IF p = "A" THEN a ELSE NoAddr]
    /\ \E m \in Methods : method = [p \in Procs |-> IF p = "A" THEN m ELSE NoMethod]
    /\ pc = [p \in Procs |-> IF p = "A" THEN "start" ELSE "absent"]
    /\ Quiet

\* a socket created in the family of the target, whatever the method
SocketDomain_FollowsTarget(m) == m.addr.fam

\* Socket::new(Domain::ipv4(), ..) for Broadcast, Domain::ipv6() for Multicast
SocketDomain(m) == IF m.kind = "Broadcast" THEN "V4" ELSE "V6"

\* the operating system binds (and joins) only an address of the socket's family
BindCan(m) == SocketDomain(m) = m.addr.fam

\* a `?` on an Err: run() returns it; the sockets it owns are closed
ReturnErr(p, org) ==
    /\ pc' = [pc EXCEPT ![p] = "returned"]
    /\ result' = [result EXCEPT ![p] = "Err"]
    /\ origin' = [origin EXCEPT ![p] = org]
    /\ bound' = [bound EXCEPT ![p] = FALSE]
    /\ inbox' = [inbox EXCEPT ![p] = <<>>]

Goto(p, to) == pc' = [pc EXCEPT ![p] = to]

\* run() with the announcement sent before the socket is bound
StepAfter_SendBeforeBind(kind, step) ==
    IF kind = "Broadcast"
    THEN CASE step = "start" -> "reuse"
           [] step = "reuse" -> "set_broadcast"
           [] step = "set_broadcast" -> "send"
           [] step = "send" -> "bind"
           [] step = "bind" -> "recv"
    ELSE CASE step = "start" -> "reuse"
           [] step = "reuse" -> "tmp_bind"
           [] step = "tmp_bind" -> "send"
           [] step = "send" -> "bind"
           [] step = "bind" -> "join"
           [] step = "join" -> "recv"

\* the order of the statements of run(): the step that follows each step
StepAfter(kind, step) ==
    IF kind = "Broadcast"
    THEN CASE step = "start" -> "reuse"
           [] step = "reuse" -> "set_broadcast"
           [] step = "set_broadcast" -> "bind"
           [] step = "bind" -> "send"
           [] step = "send" -> "recv"
    ELSE CASE step = "start" -> "reuse"
           [] step = "reuse" -> "bind"
           [] step = "bind" -> "join"
           [] step = "join" -> "tmp_bind"
           [] step = "tmp_bind" -> "send"
           [] step = "send" -> "recv"

\* the next statement of p's run() after `step`
Step(p, step) == Goto(p, StepAfter(method[p].kind, step))

\* a Broadcast socket bound to the wildcard address with the target's port
BindAddr_Wildcard(m) ==
    IF m.kind = "Broadcast" THEN V4(<<0, 0, 0, 0>>, m.addr.port) ELSE m.addr

\* socket.bind(&addr.into()): the address the receive socket is bound to
BindAddr(m) == m.addr

\* a run that announces through the receive socket whatever the method
SendSocket_AlwaysJoined(m) == "socket"

\* the socket send_to is called on: the receive socket for Broadcast, the
\* temporary socket of the inner block for Multicast
SendSocket(m) == IF m.kind = "Broadcast" THEN "socket" ELSE "tmp"

\* the socket handed to handle_broadcast_message, on which it receives
RecvSocket(m) == "socket"

\* UdpSocket::bind(":::0"): the unspecified IPv6 address, port 0 (ephemeral)
TmpAddr == V6(Zeros(16), 0, 0, 0)

\* the end of the inner block drops the temporary socket: it is closed
TmpAtBlockEnd(t) == IF t.state = "open" THEN [t EXCEPT !.state = "closed"] ELSE t

\* Socket::new(..)?
SocketNew(p) ==
    /\ pc[p] = "start"
    /\ \/ /\ Step(p, "start")
          /\ UNCHANGED <<result, origin, bound, inbox>>
       \/ ReturnErr(p, "socket")
    /\ UNCHANGED <<connect_to, method, local, tmp, buff, pending, rx, connects, callbacks,
                   sent, log, injected, codec>>

\* socket.set_reuse_address(true)?
SetReuse(p) ==
    /\ pc[p] = "reuse"
    /\ \/ /\ Step(p, "reuse")
          /\ UNCHANGED <<result, origin, bound, inbox>>
       \/ ReturnErr(p, "set_reuse_address")
    /\ UNCHANGED <<connect_to, method, local, tmp, buff, pending, rx, connects, callbacks,
                   sent, log, injected, codec>>

\* socket.set_broadcast(true)?
SetBroadcast(p) ==
    /\ pc[p] = "set_broadcast"
    /\ \/ /\ Step(p, "set_broadcast")
          /\ UNCHANGED <<result, origin, bound, inbox>>
       \/ ReturnErr(p, "set_broadcast")
    /\ UNCHANGED <<connect_to, method, local, tmp, buff, pending, rx, connects, callbacks,
                   sent, log, injected, codec>>

\* socket.bind(&addr.into())?  A Broadcast socket receives from here on.
Bind(p) ==
    /\ pc[p] = "bind"
    /\ \/ /\ BindCan(method[p])
          /\ Step(p, "bind")
          /\ bound' = [bound EXCEPT ![p] = (method[p].kind = "Broadcast")]
          /\ local' = [local EXCEPT ![p] = BindAddr(method[p])]
          /\ UNCHANGED <<result, origin, inbox>>
       \/ /\ ReturnErr(p, "bind")
          /\ UNCHANGED local
    /\ UNCHANGED <<connect_to, method, tmp, buff, pending, rx, connects, callbacks,
                   sent, log, injected, codec>>

\* socket.join_multicast_v4(..)? / socket.join_multicast_v6(..)?
\* A Multicast socket receives the group's datagrams from here on.
Join(p) ==
    /\ pc[p] = "join"
    /\ \/ /\ BindCan(method[p])
          /\ Step(p, "join")
          /\ bound' = [bound EXCEPT ![p] = TRUE]
          /\ UNCHANGED <<result, origin, inbox>>
       \/ ReturnErr(p, "join_multicast")
    /\ UNCHANGED <<connect_to, method, local, tmp, buff, pending, rx, connects, callbacks,
                   sent, log, injected, codec>>

\* let socket = UdpSocket::bind(":::0")?
TmpBind(p) ==
    /\ pc[p] = "tmp_bind"
    /\ \/ /\ Step(p, "tmp_bind")
          /\ tmp' = [tmp EXCEPT ![p] = [state |-> "open", local |-> TmpAddr]]
          /\ UNCHANGED <<result, origin, bound, inbox>>
       \/ /\ ReturnErr(p, "tmp_bind")
          /\ UNCHANGED tmp
    /\ UNCHANGED <<connect_to, method, local, buff, pending, rx, connects, callbacks,
                   sent, log, injected, codec>>

\* the sockets a datagram sent to target m reaches: those receiving on it now
Reached(m) == { q \in Procs : bound[q] /\ method[q] = m }

\* socket.send_to(&to_bytes(connect_to), addr)?, the end of the inner block,
\* then the call of handle_broadcast_message, which allocates the buffer
Send(p) ==
    /\ pc[p] = "send"
    /\ \/ /\ Step(p, "send")
          /\ inbox' = [q \in Procs |->
                IF q \in Reached(method[p])
                THEN Append(inbox[q], [src |-> p, data |-> to_bytes(connect_to[p])])
                ELSE inbox[q]]
          /\ sent' = Append1(sent, p,
                [data |-> to_bytes(connect_to[p]), to |-> method[p].addr,
                 via |-> SendSocket(method[p]),
                 reached |-> Reached(method[p])])
          /\ log' = IF method[p].kind = "Multicast"
                    THEN Append1(log, p, "warn: sent") ELSE log
          /\ buff' = [buff EXCEPT ![p] = Zeros(BuffLen)]
          /\ tmp' = [tmp EXCEPT ![p] = TmpAtBlockEnd(@)]
          /\ UNCHANGED <<result, origin, bound>>
       \/ /\ ReturnErr(p, "send_to")
          /\ tmp' = [tmp EXCEPT ![p] = IF @.state = "open"
                                       THEN [@ EXCEPT !.state = "closed"] ELSE @]
          /\ UNCHANGED <<sent, log, buff>>
    /\ UNCHANGED <<connect_to, method, local, pending, rx, connects, callbacks,
                   injected, codec>>

\* the buffer's length taken for the number of bytes read
RecvLen_BufferSize(b, data) == Len(b)

\* socket.recv_from(&mut buff): the number of bytes read is at most the
\* buffer's length; the excess of a longer datagram is discarded
RecvLen(b, data) == Min(Len(data), Len(b))

\* the buffer after recv_from: the bytes read replace its head, the rest stays
RecvInto(b, data) == CopyInto(b, 0, SubSeq(data, 1, Min(Len(data), Len(b))))

\* the loop body's verdict on parse_bytes' result, without the self check
Classify_NoSelfCheck(my_socket, out) ==
    IF out.tag = "Ok" THEN "dispatch"
    ELSE IF out.tag = "Err" THEN "malformed" ELSE "panic"

\* the loop body's verdict on parse_bytes' result
Classify(my_socket, out) ==
    IF out.tag = "Ok"
    THEN IF out.addr = my_socket THEN "self" ELSE "dispatch"
    ELSE IF out.tag = "Err" THEN "malformed" ELSE "panic"

\* a loop that gives up on a malformed packet
LoopControl_BreakOnMalformed(ev) ==
    IF ev = "recv_err" THEN "Err" ELSE IF ev = "malformed" THEN "Ok" ELSE "continue"

\* a loop that gives up when a connection fails
LoopControl_StopOnConnectErr(ev) ==
    IF ev \in {"recv_err", "connect_err"} THEN "Err" ELSE "continue"

\* what ends an iteration of the loop: only the `?` on recv_from leaves it
LoopControl(ev) == IF ev = "recv_err" THEN "Err" ELSE "continue"

\* run() with the loop's result discarded instead of propagated by `?`
RunTail_SwallowErr(h) == [result |-> "Ok", warned |-> TRUE]

\* run() after handle_broadcast_message(..)?: an Err is returned as it is,
\* anything else reaches the warning and Ok(())
RunTail(h) ==
    IF h = "Err" THEN [result |-> "Err", warned |-> FALSE]
    ELSE [result |-> "Ok", warned |-> TRUE]

\* the end of an iteration: the next receive, or the return of run()
Finish(p, h, org, ib, lg) ==
    IF h = "continue"
    THEN /\ Goto(p, "recv")
         /\ inbox' = [inbox EXCEPT ![p] = ib]
         /\ log' = [log EXCEPT ![p] = lg]
         /\ UNCHANGED <<result, origin, bound>>
    ELSE /\ Goto(p, "returned")
         /\ result' = [result EXCEPT ![p] = RunTail(h).result]
         /\ origin' = [origin EXCEPT ![p] = org]
         /\ bound' = [bound EXCEPT ![p] = FALSE]
         /\ inbox' = [inbox EXCEPT ![p] = <<>>]
         /\ log' = [log EXCEPT ![p] =
                IF RunTail(h).warned THEN Append(lg, "warn: stopped listening") ELSE lg]

\* one receive: recv_from, parse_bytes, and the comparison with my_socket
Recv(p) ==
    /\ pc[p] = "recv"
    /\ inbox[p] # <<>>
    /\ LET d == Head(inbox[p])
           n == RecvLen(buff[p], d.data)
           b == RecvInto(buff[p], d.data)
           out == parse_bytes(n, b)
           v == Classify(connect_to[p], out)
       IN /\ buff' = [buff EXCEPT ![p] = b]
          /\ rx' = Append1(rx, p, [src |-> d.src, data |-> d.data, n |-> n,
                                   out |-> out, verdict |-> v,
                                   on |-> RecvSocket(method[p])])
          /\ CASE v = "dispatch" ->
                    /\ Goto(p, "connect")
                    /\ pending' = [pending EXCEPT ![p] =
                          [tag |-> "addr", addr |-> out.addr, src |-> d.src]]
                    /\ inbox' = [inbox EXCEPT ![p] = Tail(@)]
                    /\ UNCHANGED <<result, origin, bound, log>>
               [] v = "panic" ->
                    /\ Goto(p, "panicked")
                    /\ inbox' = [inbox EXCEPT ![p] = Tail(@)]
                    /\ UNCHANGED <<pending, result, origin, bound, log>>
               [] OTHER ->
                    /\ Finish(p, LoopControl(v), "loop", Tail(inbox[p]),
                              Append(log[p], IF v = "self" THEN "trace: self"
                                             ELSE "warn: malformed"))
                    /\ UNCHANGED pending
    /\ UNCHANGED <<connect_to, method, local, tmp, connects, callbacks, sent, injected, codec>>

\* recv_from returns an I/O error
RecvErr(p) ==
    /\ pc[p] = "recv"
    /\ Finish(p, LoopControl("recv_err"), "recv_from", inbox[p], log[p])
    /\ UNCHANGED <<connect_to, method, local, tmp, buff, pending, rx, connects, callbacks,
                   sent, injected, codec>>

\* a loop that does not dial an address it has dialed before
Dial_Dedup(h, stream) ==
    IF \E i \in DOMAIN h : h[i].addr = stream.addr THEN h ELSE Append(h, stream)

\* the connects made so far and the one of this iteration: every dispatched
\* datagram is dialed, whatever was dialed before
Dial(h, stream) == Append(h, stream)

\* let stream = TcpStream::connect(socket)
Connect(p) ==
    /\ pc[p] = "connect"
    /\ \E res \in {"Ok", "Err"} :
          LET stream == [addr |-> pending[p].addr, res |-> res, src |-> pending[p].src]
          IN /\ connects' = [connects EXCEPT ![p] = Dial(@, stream)]
             /\ pending' = [pending EXCEPT ![p] = [tag |-> "stream", stream |-> stream]]
    /\ Goto(p, "callback")
    /\ UNCHANGED <<connect_to, method, local, tmp, result, origin, bound, inbox, buff, rx,
                   callbacks, sent, log, injected, codec>>

\* a dispatcher that reports only established streams
Invoke_OnlyOk(stream) == IF stream.res = "Ok" THEN <<stream>> ELSE <<>>

\* callback(stream): the invocations the iteration makes
Invoke(stream) == <<stream>>

\* callback(stream), and the end of the iteration
Callback(p) ==
    /\ pc[p] = "callback"
    /\ callbacks' = [callbacks EXCEPT ![p] = @ \o Invoke(pending[p].stream)]
    /\ pending' = [pending EXCEPT ![p] = [tag |-> "none"]]
    /\ Finish(p, LoopControl(IF pending[p].stream.res = "Ok"
                             THEN "connected" ELSE "connect_err"),
              "connect", inbox[p], log[p])
    /\ UNCHANGED <<connect_to, method, local, tmp, buff, rx, connects, sent, injected, codec>>

\* a host outside the model sends a datagram to a socket of the segment
Inject(q) ==
    /\ injected < MaxInject
    /\ bound[q]
    /\ \E d \in InjectSet :
          inbox' = [inbox EXCEPT ![q] = Append(@, [src |-> "env", data |-> d])]
    /\ injected' = injected + 1
    /\ UNCHANGED <<connect_to, method, local, tmp, pc, result, origin, bound, buff, pending,
                   rx, connects, callbacks, sent, log, codec>>

\* the steps of process p's run()
Run(p) ==
    \/ SocketNew(p)
    \/ SetReuse(p)
    \/ SetBroadcast(p)
    \/ Bind(p)
    \/ Join(p)
    \/ TmpBind(p)
    \/ Send(p)
    \/ Recv(p)
    \/ RecvErr(p)
    \/ Connect(p)
    \/ Callback(p)

\* One discovery run, of process A, among hosts outside the model.
Next == Run("A") \/ Inject("A")

Spec == Init /\ [][Next]_vars

\* Two discovery runs on one segment, with no other host on it.
DuoInit ==
    /\ connect_to \in { f \in [Procs -> UNION { DuoAddrs(p) : p \in Procs }] :
                          \A p \in Procs : f[p] \in DuoAddrs(p) }
    /\ \E m \in Methods : method = [p \in Procs |-> m]
    /\ pc = [p \in Procs |-> "start"]
    /\ Quiet

DuoNext == \E p \in Procs : Run(p)

DuoSpec == DuoInit /\ [][DuoNext]_vars

----------------------------------------------------------------------------
(* Properties.                                                             *)

Last(q) == q[Len(q)]

\* the addresses handed to TcpStream::connect so far, the one in hand included
Dialing(p) ==
    [i \in DOMAIN connects[p] |-> connects[p][i].addr]
    \o (IF pc[p] = "connect" THEN <<pending[p].addr>> ELSE <<>>)

\* the receives of p that the loop dispatched
DispatchedRx(p) == SelectSeq(rx[p], LAMBDA e : e.verdict = "dispatch")

\* C1: receiving one's own announcement never triggers a self-connection:
\* a datagram that this run sent itself is never dispatched, whatever the
\* advertised address (IPv4, or IPv6 with any flow info and scope id).
C1_NoSelfConnection ==
    \A p \in Procs :
        /\ \A i \in DOMAIN rx[p] : rx[p][i].src = p => rx[p][i].verdict # "dispatch"
        /\ \A i \in DOMAIN connects[p] : connects[p][i].src # p
        /\ \A i \in DOMAIN callbacks[p] : callbacks[p][i].src # p

\* p has announced, is in the loop, and has handled all it was sent
Drained(p) == pc[p] = "recv" /\ inbox[p] = <<>> /\ Len(sent[p]) = 1

\* p has tried to connect to the address q advertises
Dialed(p, q) == \E i \in DOMAIN connects[p] : connects[p][i].addr = connect_to[q]

\* p has tried to connect to the IP and port q advertises
DialedIpPort(p, q) ==
    \E i \in DOMAIN connects[p] :
        /\ connects[p][i].addr.fam = connect_to[q].fam
        /\ connects[p][i].addr.ip = connect_to[q].ip
        /\ connects[p][i].addr.port = connect_to[q].port

\* A and B run with a Broadcast target and distinct advertised addresses
\* (distinct in IP or port), and both have announced and drained their sockets
BroadcastPairSettled ==
    /\ \A p \in Procs : method[p].kind = "Broadcast" /\ Drained(p)
    /\ \/ connect_to["A"].ip # connect_to["B"].ip
       \/ connect_to["A"].port # connect_to["B"].port

\* C2 as stated: two processes A and B that run() with the same Broadcast
\* target, in whatever order their setup and announce steps interleave, end up
\* with A having tried to connect to B's advertised address and B to A's.
C2_BothDirectionsDialed ==
    BroadcastPairSettled => Dialed("A", "B") /\ Dialed("B", "A")

\* C2 as amended: with the same Broadcast target and reliable delivery, A
\* tries to connect to B's advertised IP and port exactly when A's socket was
\* already bound at the moment B sent its announcement, and likewise B to A's;
\* in an interleaving where one process announces before the other has bound,
\* only the process that bound first dials.
C2_DialedIffBoundBeforeSend ==
    BroadcastPairSettled =>
        \A p, q \in Procs :
            p # q => (DialedIpPort(p, q) <=> p \in sent[q][1].reached)

C2_Witness ==
    /\ BroadcastPairSettled
    /\ connect_to["A"].fam = "V4" /\ connect_to["B"].fam = "V4"
    /\ "A" \in sent["B"][1].reached /\ Dialed("A", "B")
    /\ "B" \notin sent["A"][1].reached /\ ~Dialed("B", "A")

\* C3: a received datagram whose length is neither 6 nor 18 (shorter than 6,
\* between 7 and 17, or longer than the buffer) is always dropped: no connect,
\* no callback, and the loop goes on to the next receive.
C3_UnexpectedLengthDropped ==
    \A p \in Procs :
        /\ \A i \in DOMAIN rx[p] :
              Len(rx[p][i].data) \notin {6, 18} => rx[p][i].verdict = "malformed"
        /\ Len(rx[p]) > 0 /\ Len(Last(rx[p]).data) \notin {6, 18}
              => pc[p] = "recv" \/ (pc[p] = "returned" /\ origin[p] = "recv_from")

\* what the loop does with datagrams ds, starting with buffer b
RECURSIVE Replay(_, _, _)
Replay(ds, b, my) ==
    IF ds = <<>> THEN <<>>
    ELSE LET nb == RecvInto(b, Head(ds))
             out == parse_bytes(RecvLen(b, Head(ds)), nb)
         IN <<[out |-> out, verdict |-> Classify(my, out)]>>
            \o Replay(Tail(ds), nb, my)

\* the receives of p that decoded
Decoded(p) == SelectSeq(rx[p], LAMBDA e : e.verdict # "malformed")

\* C4: malformed input never stops the loop: after a datagram that failed to
\* decode the loop is receiving again (run() returns only when a later
\* receive fails), and the datagrams that decode are handled, and dialed,
\* exactly as a loop that never saw the malformed ones handles them.
C4_MalformedNeverStops ==
    \A p \in Procs :
        /\ Len(rx[p]) > 0 /\ Last(rx[p]).verdict = "malformed"
              => /\ pc[p] = "recv" \/ (pc[p] = "returned" /\ origin[p] = "recv_from")
                 /\ result[p] \in {"none", "Err"}
        /\ (\E i \in DOMAIN rx[p] : rx[p][i].verdict = "malformed") =>
              LET seen == Decoded(p)
                  ideal == Replay([i \in DOMAIN seen |-> seen[i].data],
                                  Zeros(BuffLen), connect_to[p])
                  dial == SelectSeq(ideal, LAMBDA e : e.verdict = "dispatch")
              IN /\ ideal = [i \in DOMAIN seen |->
                               [out |-> seen[i].out, verdict |-> seen[i].verdict]]
                 /\ Dialing(p) = [i \in DOMAIN dial |-> dial[i].out.addr]

C4_Witness ==
    \E p \in Procs : \E i, j \in DOMAIN rx[p] :
        /\ i < j
        /\ rx[p][i].verdict = "malformed"
        /\ Len(rx[p][j].data) = 6 /\ rx[p][j].verdict = "dispatch"
        /\ Len(callbacks[p]) = 1 /\ callbacks[p][1].addr = rx[p][j].out.addr
        /\ pc[p] = "recv"

\* C5: every datagram that decodes to an address other than the advertised
\* one gets one connect to that address and one callback with that connect's
\* result, success or failure; a failed connect does not end the loop.
C5_DispatchReportsOnce ==
    \A p \in Procs :
        /\ LET dx == DispatchedRx(p)
           IN Dialing(p) = [i \in DOMAIN dx |-> dx[i].out.addr]
        /\ callbacks[p] =
              IF pc[p] = "callback"
              THEN SubSeq(connects[p], 1, Len(connects[p]) - 1)
              ELSE connects[p]
        /\ pc[p] = "callback" => pending[p].stream = Last(connects[p])
        /\ origin[p] # "connect"
        /\ Len(connects[p]) > 0 /\ pc[p] = "returned" => origin[p] = "recv_from"

C5_Witness ==
    \E p \in Procs :
        /\ Len(callbacks[p]) = 2
        /\ callbacks[p][1].res = "Err" /\ callbacks[p][2].res = "Ok"
        /\ pc[p] = "recv"

\* C6: a datagram that decodes to the advertised address is never dialed and
\* never reported to the callback, and the loop goes on receiving.
C6_SelfFiltered ==
    \A p \in Procs :
        /\ \A i \in DOMAIN rx[p] :
              rx[p][i].out.tag = "Ok" /\ rx[p][i].out.addr = connect_to[p]
                  => rx[p][i].verdict = "self"
        /\ \A i \in DOMAIN Dialing(p) : Dialing(p)[i] # connect_to[p]
        /\ \A i \in DOMAIN callbacks[p] : callbacks[p][i].addr # connect_to[p]
        /\ Len(rx[p]) > 0 /\ Last(rx[p]).verdict = "self"
              => pc[p] = "recv" \/ (pc[p] = "returned" /\ origin[p] = "recv_from")

C6_Witness ==
    \E p \in Procs :
        /\ Len(rx[p]) = 2
        /\ rx[p][1].verdict = "self" /\ rx[p][1].src = p
        /\ rx[p][2].verdict = "self" /\ rx[p][2].src = "env"
        /\ connects[p] = <<>> /\ callbacks[p] = <<>>
        /\ pc[p] = "recv"

\* the calls of socket creation, option setting, bind and join
SetupCalls ==
    {"socket", "set_reuse_address", "set_broadcast", "bind", "tmp_bind", "join_multicast"}

\* C7 as stated: every Err that run() returns comes from socket creation,
\* option setting, bind, multicast join, or the receive call of the loop; no
\* failure of the announcement send, of decoding or of a connect returns.
C7_OnlySetupAndRecvErrors ==
    \A p \in Procs :
        result[p] = "Err" => origin[p] \in SetupCalls \cup {"recv_from"}

\* C7 as amended: every Err that run() returns comes from socket creation,
\* option setting, bind, multicast join, the announcement send, or the receive
\* call of the loop; an Err from setup or from the send is returned before the
\* loop receives anything, and no decode failure and no failed connect makes
\* run() return.
C7_ErrOrigins ==
    \A p \in Procs :
        /\ result[p] = "Err" => origin[p] \in SetupCalls \cup {"send_to", "recv_from"}
        /\ origin[p] \in SetupCalls \cup {"send_to"} => rx[p] = <<>> /\ buff[p] = <<>>
        /\ pc[p] = "returned" <=> result[p] # "none"
        /\ origin[p] \in SetupCalls => sent[p] = <<>>

C7_Witness ==
    \E p \in Procs :
        /\ result[p] = "Err" /\ origin[p] = "recv_from"
        /\ \E i \in DOMAIN rx[p] : rx[p][i].verdict = "malformed"
        /\ \E i \in DOMAIN callbacks[p] : callbacks[p][i].res = "Err"

\* C8: run() never returns success: it is still running or it has returned
\* Err, for Broadcast and for Multicast; the warning and the Ok(()) after the
\* match are never reached.
C8_NeverReturnsOk ==
    \A p \in Procs :
        /\ result[p] # "Ok"
        /\ pc[p] = "returned" => result[p] = "Err"
        /\ \A i \in DOMAIN log[p] : log[p][i] # "warn: stopped listening"

C8_Witness ==
    \E p \in Procs :
        /\ pc[p] = "returned" /\ origin[p] = "recv_from"
        /\ method[p].kind = "Multicast"
        /\ Len(rx[p]) = 3 /\ Len(callbacks[p]) > 0

\* C9 as stated: for every IPv4 and every IPv6 socket address a,
\* parse_bytes(len(b), b) with b = to_bytes(a) returns Ok(a).
C9_RoundTrip ==
    codec.op = "decoded" => codec.out = Ok(codec.addr)

\* C9 as amended: for every IPv4 and every IPv6 socket address a,
\* parse_bytes(len(b), b) with b = to_bytes(a) returns Ok(a') where a' has
\* the family, IP and port of a, and flow info 0 and scope id 0 when IPv6; so
\* a' == a for every IPv4 address and for every IPv6 address whose flow info
\* and scope id are 0.
C9_RoundTripIpPort ==
    codec.op = "decoded" =>
        /\ codec.out.tag = "Ok"
        /\ codec.out.addr.fam = codec.addr.fam
        /\ codec.out.addr.ip = codec.addr.ip
        /\ codec.out.addr.port = codec.addr.port
        /\ codec.addr.fam = "V6" =>
              codec.out.addr.flowinfo = 0 /\ codec.out.addr.scope_id = 0
        /\ (codec.addr.fam = "V4" \/ (codec.addr.flowinfo = 0 /\ codec.addr.scope_id = 0))
              => codec.out.addr = codec.addr

C9_Witness ==
    /\ codec.op = "decoded"
    /\ codec.addr.fam = "V6" /\ codec.addr.scope_id = 2 /\ codec.addr.port = 5000
    /\ codec.out.tag = "Ok" /\ codec.out.addr # codec.addr

\* C10: on the loop's 18-byte buffer, parse_bytes(len, buff) returns Ok if
\* and only if len is 6 or 18, Err for every other len, and never panics.
C10_LengthDispatch ==
    codec.op = "parsed" =>
        /\ Len(codec.buff) = BuffLen
        /\ codec.out.tag = "Ok" <=> codec.len \in {6, 18}
        /\ codec.len \notin {6, 18} => codec.out = Err
        /\ codec.len = 6 => codec.out.addr.fam = "V4"
        /\ codec.len = 18 => codec.out.addr.fam = "V6"

C10_Witness ==
    codec.op = "parsed" /\ codec.len = 19 /\ codec.out = Err

\* C11: to_bytes produces exactly 6 bytes for an IPv4 socket address (the 4
\* octets, then the port as 2 big-endian bytes) and exactly 18 bytes for an
\* IPv6 socket address (the 16 octets, then the port as 2 big-endian bytes),
\* and never any other length.
C11_WireFormat ==
    codec.op \in {"encoded", "decoded"} =>
        LET a == codec.addr
            b == codec.bytes
            k == IF a.fam = "V4" THEN 4 ELSE 16
        IN /\ Len(a.ip) = k
           /\ Len(b) = k + 2
           /\ Len(b) \in {6, 18}
           /\ \A i \in 1..k : b[i] = a.ip[i]
           /\ b[k + 1] * 256 + b[k + 2] = a.port
           /\ \A i \in 1..Len(b) : b[i] \in 0..255

C11_Witness ==
    /\ codec.op = "encoded"
    /\ codec.addr.fam = "V6" /\ codec.addr.port = 5000
    /\ Len(codec.bytes) = 18 /\ codec.bytes[17] = 19 /\ codec.bytes[18] = 136

\* the steps of run() that come before the announcement
BeforeSend == {"start", "reuse", "set_broadcast", "bind", "join", "tmp_bind", "send"}

\* the steps of the receive loop
InLoop == {"recv", "connect", "callback"}

\* C12 as stated: every discovery run sends exactly one announcement; a run
\* that has returned sent none only if a setup step (socket creation,
\* options, bind, join) failed.
C12_ExactlyOneUnlessSetupFails ==
    \A p \in Procs :
        pc[p] = "returned" /\ origin[p] \notin SetupCalls => Len(sent[p]) = 1

\* C12 as amended: a discovery run sends at most one announcement, the
\* encoding of the advertised address addressed to the method's target; it
\* is sent only after every setup step has succeeded (the receive socket is
\* bound, and joined, when it is sent) and before the first receive, and none
\* is sent during the loop; if a setup step or the send itself fails, run()
\* returns the error with zero announcements sent.
C12_AnnounceOnce ==
    \A p \in Procs :
        /\ Len(sent[p]) <= 1
        /\ pc[p] \in BeforeSend => sent[p] = <<>> /\ rx[p] = <<>>
        /\ pc[p] \in InLoop => Len(sent[p]) = 1
        /\ pc[p] = "returned" =>
              (Len(sent[p]) = 1 <=> origin[p] = "recv_from")
        /\ origin[p] \in SetupCalls \cup {"send_to"} => sent[p] = <<>>
        /\ rx[p] # <<>> => Len(sent[p]) = 1
        /\ \A i \in DOMAIN sent[p] :
              /\ sent[p][i].data = to_bytes(connect_to[p])
              /\ sent[p][i].to = method[p].addr
              /\ p \in sent[p][i].reached
              /\ local[p] # Unbound

C12_Witness ==
    \E p \in Procs :
        /\ Len(sent[p]) = 1 /\ Len(rx[p]) = 3 /\ pc[p] = "recv"
        /\ method[p].kind = "Multicast"

\* C13: in a Multicast run the receive socket is created in the IP family of
\* the target address (IPv4 socket for an IPv4 group, IPv6 socket for an IPv6
\* group), so that bind and join can succeed for either family.
C13_SocketFamilyFollowsTarget ==
    \A p \in Procs :
        method[p].kind = "Multicast" /\ pc[p] \notin {"absent", "start"}
            /\ origin[p] # "socket"
            => /\ SocketDomain(method[p]) = method[p].addr.fam
               /\ origin[p] # "bind"

\* C14 as stated: in a Broadcast run the socket is bound to the wildcard
\* address with the target's port, not to the target address itself, and the
\* same socket sends the announcement and makes every receive.
C14_BoundToWildcard ==
    \A p \in Procs :
        method[p].kind = "Broadcast" /\ local[p] # Unbound
            => /\ local[p] = V4(<<0, 0, 0, 0>>, method[p].addr.port)
               /\ \A i \in DOMAIN sent[p] : sent[p][i].via = "socket"
               /\ \A i \in DOMAIN rx[p] : rx[p][i].on = "socket"

\* C14 as amended: in a Broadcast run the single UDP socket is bound to the
\* target address itself (the target's IP and port, not the wildcard
\* address), and that same socket is used both to send the announcement to
\* the target and for every receive of the loop; no other socket is opened.
C14_BoundToTarget ==
    \A p \in Procs :
        method[p].kind = "Broadcast" /\ pc[p] # "absent"
            => /\ local[p] \in {Unbound, method[p].addr}
               /\ bound[p] => local[p] = method[p].addr
               /\ pc[p] \in InLoop \cup {"send"} => local[p] = method[p].addr
               /\ \A i \in DOMAIN sent[p] :
                     sent[p][i].via = "socket" /\ sent[p][i].to = local[p]
               /\ \A i \in DOMAIN rx[p] : rx[p][i].on = "socket"
               /\ tmp[p].state = "none"

C14_Witness ==
    \E p \in Procs :
        /\ method[p].kind = "Broadcast"
        /\ local[p] = V4(Ip4Bcast, 2020)
        /\ Len(sent[p]) = 1 /\ Len(rx[p]) = 2 /\ pc[p] = "recv"

\* C15: in a Multicast run the announcement is sent through a second,
\* temporary socket bound to an ephemeral port, never through the joined
\* socket; the temporary socket is closed before the first receive; and
\* every receive of the loop is made on the joined socket only.
C15_MulticastSocketRoles ==
    \A p \in Procs :
        method[p].kind = "Multicast"
            => /\ \A i \in DOMAIN sent[p] : sent[p][i].via = "tmp"
               /\ tmp[p].state = "open" <=> pc[p] = "send"
               /\ tmp[p].state # "none" => tmp[p].local.port = 0 /\ tmp[p].local # local[p]
               /\ sent[p] # <<>> => tmp[p].state = "closed"
               /\ pc[p] \in InLoop => tmp[p].state = "closed" /\ bound[p]
               /\ rx[p] # <<>> => tmp[p].state = "closed"
               /\ \A i \in DOMAIN rx[p] : rx[p][i].on = "socket"

C15_Witness ==
    \E p \in Procs :
        /\ method[p] = Multicast(V6(Ip6Group, 1337, 0, 0))
        /\ connect_to[p] = V6(Ip6Loop, 5000, 0, 0)
        /\ Len(sent[p]) = 1 /\ sent[p][1].via = "tmp"
        /\ Len(rx[p]) = 2 /\ tmp[p].state = "closed"

\* the datagram alone, as a fresh buffer holds it after recv_from
Fresh(data) ==
    LET n == Min(Len(data), BuffLen)
    IN SubSeq(data, 1, n) \o SubSeq(Zeros(BuffLen), n + 1, BuffLen)

\* the address a datagram alone decodes to
Alone(data) == parse_bytes(Min(Len(data), BuffLen), Fresh(data))

\* what the received datagrams decode to alone, in delivery order, restricted
\* to the addresses other than the advertised one
Others(p) ==
    SelectSeq([i \in DOMAIN rx[p] |-> Alone(rx[p][i].data)],
              LAMBDA o : o.tag = "Ok" /\ o.addr # connect_to[p])

\* C16: at every point of a run the sequence of addresses for which a connect
\* was attempted equals the sequence of received datagrams, in delivery order,
\* restricted to those that decode to an address other than the advertised
\* one; nothing is deduplicated: an address announced k times is dialed k times.
C16_OrderPreservingDispatch ==
    \A p \in Procs :
        LET os == Others(p)
        IN Dialing(p) = [i \in DOMAIN os |-> os[i].addr]

C16_Witness ==
    \E p \in Procs :
        /\ Len(connects[p]) = 3
        /\ connects[p][1].addr = connects[p][3].addr
        /\ connects[p][1].addr # connects[p][2].addr
        /\ connects[p][1].src = "env" /\ connects[p][3].src = "env"

\* C17: whenever the receive loop stops because the receive call returned an
\* I/O error, a warning is logged before run() returns that error.
C17_RecvErrorWarned ==
    \A p \in Procs :
        pc[p] = "returned" /\ origin[p] = "recv_from"
            => \E i \in DOMAIN log[p] : log[p][i] = "warn: stopped listening"

\* C18: no discovery run sends an announcement or enters the receive loop
\* with a Broadcast method whose target is an IPv6 socket address: such a
\* run never binds its socket.
C18_BroadcastNeverIPv6 ==
    \A p \in Procs :
        method[p].kind = "Broadcast" /\ method[p].addr.fam = "V6"
            => /\ sent[p] = <<>> /\ rx[p] = <<>> /\ inbox[p] = <<>>
               /\ pc[p] \notin InLoop \cup {"send"}
               /\ ~bound[p] /\ local[p] = Unbound
               /\ pc[p] = "returned" => origin[p] \in SetupCalls

C18_Witness ==
    \E p \in Procs :
        /\ method[p] = Broadcast(V6(Ip6Group, 1337, 0, 0))
        /\ pc[p] = "returned" /\ origin[p] = "bind" /\ result[p] = "Err"

\* C19: the buffer is reused across iterations, yet the address decoded in an
\* iteration, and the comparison with the advertised address, depend only on
\* the bytes and length of the datagram received in that iteration: they are
\* what a fresh buffer gives, whatever earlier datagrams left behind.
C19_NoStaleBytes ==
    \A p \in Procs : \A i \in DOMAIN rx[p] :
        LET alone == Alone(rx[p][i].data)
        IN /\ rx[p][i].n = Min(Len(rx[p][i].data), BuffLen)
           /\ rx[p][i].out = alone
           /\ rx[p][i].verdict = Classify(connect_to[p], alone)

C19_Witness ==
    \E p \in Procs :
        /\ Len(rx[p]) = 2
        /\ Len(rx[p][1].data) >= 17 /\ Len(rx[p][2].data) = 6
        /\ rx[p][2].verdict = "dispatch"
        /\ buff[p] # Fresh(rx[p][2].data)
        /\ \E i \in 7..BuffLen : buff[p][i] # 0

\* the number of times p has tried to connect to the IP and port q advertises
DialCount(p, q) ==
    Cardinality({ i \in DOMAIN connects[p] :
        /\ connects[p][i].addr.ip = connect_to[q].ip
        /\ connects[p][i].addr.port = connect_to[q].port })

\* A and B run on one target with advertised addresses distinct in IP or
\* port, and both have announced and drained their sockets
PairSettled ==
    /\ \A p \in Procs : Drained(p)
    /\ method["A"] = method["B"]
    /\ \/ connect_to["A"].ip # connect_to["B"].ip
       \/ connect_to["A"].port # connect_to["B"].port

\* C20: of two processes that complete setup and announce once on
\* the same target with distinct advertised addresses, with no receive error,
\* at least one attempts a connect to the other's advertised address, and
\* each dials the other at most once.
C20_AtLeastOneDialsAddress ==
    /\ PairSettled => Dialed("A", "B") \/ Dialed("B", "A")
    /\ \A p, q \in Procs : p # q => DialCount(p, q) <= 1

\* What does hold of such a pair: at least one attempts a connect to the
\* other's advertised IP and port (flow info and scope id are lost on the
\* wire), namely the one whose socket was receiving when the other announced,
\* and each dials the other at most once.
AtLeastOneDialsIpPort ==
    /\ PairSettled =>
          /\ DialedIpPort("A", "B") \/ DialedIpPort("B", "A")
          /\ "A" \in sent["B"][1].reached \/ "B" \in sent["A"][1].reached
          /\ \A p, q \in Procs :
                p # q /\ p \in sent[q][1].reached => DialedIpPort(p, q)
    /\ \A p, q \in Procs :
          p # q /\ (connect_to[p].ip # connect_to[q].ip
                    \/ connect_to[p].port # connect_to[q].port)
              => DialCount(p, q) <= 1

ScopeLostPair ==
    /\ PairSettled
    /\ method["A"].kind = "Multicast"
    /\ connect_to["A"] = V6(Ip6Link, 5000, 0, 2)
    /\ DialedIpPort("B", "A") /\ ~Dialed("B", "A")
    /\ ~DialedIpPort("A", "B")
    /\ DialCount("B", "A") = 1

====
